---- MODULE Spec2Model ----
(***************************************************************************)
(* Model of the extinction-law objects of astropysics/obstools.py          *)
(* (class Extinction and its subclasses): the normalization A0, the        *)
(* calibration computeA0FromFluxRatio, correctSpectrum and the             *)
(* PipelineElement methods _plFeed/_plProcess/_plExtract/_plClear.         *)
(*                                                                         *)
(* Floating-point numbers are fixed-point integers with Scale units per    *)
(* 1.0 (2.86 is 2860); wavelengths are integers in units of 0.01 Angstrom  *)
(* (6562.82 is 656282).  A numeric value is a record [arr, v]: a scalar    *)
(* has arr = FALSE and a one-element v, a numpy array has arr = TRUE.      *)
(* A call's outcome is a record whose field exc is "" when the call        *)
(* returned and the name of the exception class when it raised.            *)
(***************************************************************************)
EXTENDS Integers, Sequences, FiniteSets, TLC

VARIABLES kind, params, A0, _plbuffer, ret, hist

vars == <<kind, params, A0, _plbuffer, ret, hist>>

(***************************************************************************)
(* Bounds of the model                                                     *)
(***************************************************************************)
\* most spectra fed between two calls of _plClear
MaxQueue == 2
\* the rounding of the fixed-point arithmetic that a value may show after a
\* product and two quotients, in units of 1/Scale
Tol == 5
\* the call counter of hist saturates here
MaxCalls == 3

(***************************************************************************)
(* Fixed-point arithmetic standing for Python/numpy float arithmetic       *)
(***************************************************************************)
Scale == 10^3

\* x*y and x/y on fixed-point numbers
FMul(x, y) == (x * y) \div Scale
FDiv(x, y) == (x * Scale) \div y

Scalar(n) == [arr |-> FALSE, v |-> <<n>>]
Arr(s) == [arr |-> TRUE, v |-> s]

\* numpy broadcasting of two values of at most one dimension
BroadcastOK(a, b) == Len(a.v) = Len(b.v) \/ Len(a.v) = 1 \/ Len(b.v) = 1
BLen(a, b) == IF Len(a.v) >= Len(b.v) THEN Len(a.v) ELSE Len(b.v)
At(a, i) == IF Len(a.v) = 1 THEN a.v[1] ELSE a.v[i]

NMul(a, b) == [arr |-> a.arr \/ b.arr, v |-> [i \in 1..BLen(a, b) |-> FMul(At(a, i), At(b, i))]]
NDiv(a, b) == [arr |-> a.arr \/ b.arr, v |-> [i \in 1..BLen(a, b) |-> FDiv(At(a, i), At(b, i))]]
NSub(a, b) == [arr |-> a.arr \/ b.arr, v |-> [i \in 1..BLen(a, b) |-> At(a, i) - At(b, i)]]

\* ln(10) and the number of terms kept of the two series below
Ln10 == 2303
ExpTerms == 12
AtanhTerms == 8

RECURSIVE ExpSeries(_, _, _)
\* sum of the terms w^k/k! for k >= the given k, term being w^(k-1)/(k-1)!
ExpSeries(w, term, k) ==
    IF k > ExpTerms \/ term = 0 THEN term
    ELSE term + ExpSeries(w, FMul(term, w) \div k, k + 1)

RECURSIVE IPow10(_)
IPow10(n) == IF n = 0 THEN 1 ELSE 10 * IPow10(n - 1)

\* 10**y
Pow10(y) ==
    LET n == y \div Scale
        r == y % Scale
        m == ExpSeries(FMul(r, Ln10), Scale, 1)
    IN  IF n >= 0 THEN m * IPow10(n) ELSE m \div IPow10(-n)

RECURSIVE AtanhSeries(_, _, _)
\* sum of t^(2k+1)/(2k+1), pw being t^(2k+1)
AtanhSeries(t, pw, k) ==
    IF k >= AtanhTerms \/ pw = 0 THEN 0
    ELSE (pw \div (2 * k + 1)) + AtanhSeries(t, FMul(FMul(pw, t), t), k + 1)

RECURSIVE Log10(_)
\* np.log10(q) for q > 0
Log10(q) ==
    IF q >= 3163 THEN Scale + Log10(q \div 10)
    ELSE IF q < 316 THEN Log10(q * 10) - Scale
    ELSE LET t == FDiv(q - Scale, q + Scale)
         IN  FDiv(2 * AtanhSeries(t, t, 0), Ln10)

RECURSIVE SumSeq(_)
SumSeq(s) == IF s = <<>> THEN 0 ELSE Head(s) + SumSeq(Tail(s))

RECURSIVE SqrtIn(_, _, _)
\* the largest r of lo..hi with r*r <= n
SqrtIn(n, lo, hi) ==
    IF lo >= hi THEN lo
    ELSE LET mid == (lo + hi + 1) \div 2
         IN  IF mid * mid <= n THEN SqrtIn(n, mid, hi) ELSE SqrtIn(n, lo, mid - 1)

ISqrt(n) == SqrtIn(n, 0, 46340)

\* np.mean and np.std: both give a scalar
Mean(a) == Scalar(SumSeq(a.v) \div Len(a.v))
Std(a) ==
    LET m == SumSeq(a.v) \div Len(a.v)
        sq == [i \in 1..Len(a.v) |-> FMul(a.v[i] - m, a.v[i] - m)]
    IN  Scalar(ISqrt((SumSeq(sq) \div Len(a.v)) * Scale))

(***************************************************************************)
(* Python values passed by the caller: None, a float, a string, a list or  *)
(* a numpy array of floats and strings                                     *)
(***************************************************************************)
PyNone == [n |-> 0, s |-> "", t |-> "None", q |-> <<>>]
PyNum(n) == [n |-> n, s |-> "", t |-> "num", q |-> <<>>]
PyStr(s) == [n |-> 0, s |-> s, t |-> "str", q |-> <<>>]
PyList(q) == [n |-> 0, s |-> "", t |-> "list", q |-> q]
PyNd(q) == [n |-> 0, s |-> "", t |-> "ndarray", q |-> q]

Ok(v) == [exc |-> "", val |-> v]
Fail(e) == [exc |-> e, val |-> <<>>]

\* isinstance(p, basestring)
isStr(p) == p.t = "str"
isSeq(p) == p.t \in {"list", "ndarray"}
allNum(q) == \A i \in 1..Len(q) : q[i].t = "num"
nums(q) == [i \in 1..Len(q) |-> q[i].n]

\* p as the operand of float arithmetic: a list, a string or None raise
\* TypeError there
operand(p) ==
    CASE p.t = "num" -> Ok(Scalar(p.n))
      [] p.t = "ndarray" /\ allNum(p.q) -> Ok(Arr(nums(p.q)))
      [] OTHER -> Fail("TypeError")

\* np.array(p, copy=False) as the operand of float arithmetic: a sequence
\* holding a string becomes an array of strings, which raises TypeError there
nparray(p) ==
    CASE p.t = "num" -> Ok(Scalar(p.n))
      [] isSeq(p) /\ allNum(p.q) -> Ok(Arr(nums(p.q)))
      [] OTHER -> Fail("TypeError")

\* bool(p); the truth value of an array of several elements raises ValueError
truthRaises(p) == p.t = "ndarray" /\ Len(p.q) > 1
truth(p) ==
    CASE p.t = "None" -> FALSE
      [] p.t = "num" -> p.n # 0
      [] p.t = "str" -> p.s # ""
      [] p.t = "list" -> Len(p.q) > 0
      [] OTHER -> Len(p.q) = 1 /\ (p.q[1].t = "str" \/ p.q[1].n # 0)

(***************************************************************************)
(* The extinction laws                                                     *)
(***************************************************************************)
\* 1e4/lamb: inverse microns of a wavelength in 0.01 Angstrom
invMicron(lamb) == (10^9) \div lamb

\* CalzettiExtinction._poly, coefficients from the highest power down
_poly(x) == FMul(FMul(FMul(11, x) - 198, x) + 1509, x) - 2156

\* CalzettiExtinction.f on one wavelength: (-2.5/np.log(10))*_poly(1e4/lamb)
CalzettiF(lamb) == FMul(-1086, _poly(invMicron(lamb)))

\* x*x for an x whose square, written with Scale, does not fit an integer of
\* the model checker when it is computed in one product
FSqr(x) == (x \div Scale) * x + FMul(x % Scale, x)

\* the classes that take their shape from FMExtinction.f
FMKinds == {"FMExtinction", "LMCExtinction", "SMCExtinction"}

\* C1+C2*x+C3*D of FMExtinction.f
FMbase(self, x) ==
    LET xsq == FMul(x, x)
        den == FSqr(xsq - FMul(self.x0, self.x0)) + FMul(xsq, FMul(self.gamma, self.gamma))
        D == FDiv(FDiv(xsq, den), den)
    IN  self.C1 + FMul(self.C2, x) + FMul(self.C3, D)

\* C4*(0.5392*(x-5.9)**2+0.05644*(x-5.9)**3)
FMcubic(C4, y) == FMul(C4, FMul(539, FMul(y, y)) + FMul(56, FMul(FMul(y, y), y)))

\* FMExtinction.f on a number: if x>=5.9: FMf+=...
FMf(self, lamb) ==
    (IF invMicron(lamb) >= 5900
     THEN FMbase(self, invMicron(lamb)) + FMcubic(self.C4, invMicron(lamb) - 5900)
     ELSE FMbase(self, invMicron(lamb))) + self.Rv

\* the number of elements that a mask selects among the first i
rank(mask, i) == Cardinality({j \in 1..i : mask[j]})

\* x[mask]: the selected elements, in their order
compress(x, mask) ==
    [j \in 1..rank(mask, Len(x)) |-> x[CHOOSE i \in 1..Len(x) : mask[i] /\ rank(mask, i) = j]]

\* the statements of the array branch for x = 1e4/lamb and C4m = x>=5.9:
\* in FMf[C4m]+=... the selected elements take the elements of the right-hand
\* side in their order
FMfMasked(self, x, C4m) ==
    [i \in 1..Len(x) |->
        (IF C4m[i]
         THEN FMbase(self, x[i]) + FMcubic(self.C4, compress(x, C4m)[rank(C4m, i)] - 5900)
         ELSE FMbase(self, x[i])) + self.Rv]

\* an array branch that decides on the first element for all of them
FMfArray_shortCircuit(self, lamb) ==
    FMfMasked(self, [i \in 1..Len(lamb) |-> invMicron(lamb[i])],
              [i \in 1..Len(lamb) |-> invMicron(lamb[1]) >= 5900])

\* FMExtinction.f on an array: C4m=x>=5.9; FMf[C4m]+=...
FMfArray(self, lamb) ==
    FMfMasked(self, [i \in 1..Len(lamb) |-> invMicron(lamb[i])],
              [i \in 1..Len(lamb) |-> invMicron(lamb[i]) >= 5900])

RECURSIVE polyval(_, _)
\* np.polyval(p, y): the coefficients p from the highest power down
polyval(p, y) ==
    IF Len(p) = 1 THEN p[1]
    ELSE polyval(<<FMul(p[1], y) + p[2]>> \o SubSeq(p, 3, Len(p)), y)

\* x**1.61
pow161(x) == Pow10(FMul(1610, Log10(x)))

\* an element of np.ndarray(x.shape,x.dtype) that no assignment has written
unwritten == -999999

\* a[mask] = val on one element
masked(cur, mask, val) == IF mask THEN val ELSE cur

\* the ends of the five regimes of CardelliExtinction.f: regime k is
\* CCMbounds[k] <= x <= CCMbounds[k+1] (irs, opts, nuv1s, nuv2s, fuvs)
CCMbounds == <<300, 1100, 3300, 5900, 8000, 10000>>
\* masks that leave out the ends of the regimes
regimeMask_open(k, x) == CCMbounds[k] < x /\ x < CCMbounds[k + 1]

\* the mask of regime k
regimeMask(k, x) == CCMbounds[k] <= x /\ x <= CCMbounds[k + 1]

\* the value that regime k assigns to a and to b; regime 3 adds Fa and Fb of
\* y = x - 5.9 to the terms it shares with regime 4
regimeA(k, x) ==
    CASE k = 1 -> FMul(574, pow161(x))
      [] k = 2 -> polyval(<<330, -775, 20, 721, -24, -504, 177, 1000>>, x - 1820)
      [] k = 3 -> 1752 - FMul(316, x) - FDiv(104, FMul(x - 4670, x - 4670) + 341)
                  + FMul(-45, FMul(x - 5900, x - 5900))
                  + FMul(-10, FMul(FMul(x - 5900, x - 5900), x - 5900))
      [] k = 4 -> 1752 - FMul(316, x) - FDiv(104, FMul(x - 4670, x - 4670) + 341)
      [] k = 5 -> polyval(<<-70, 137, -628, -1073>>, x - 8000)
regimeB(k, x) ==
    CASE k = 1 -> FMul(-527, pow161(x))
      [] k = 2 -> polyval(<<-2090, 5303, -623, -5384, 1072, 2283, 1413, 0>>, x - 1820)
      [] k = 3 -> -3090 + FMul(1825, x) + FDiv(1206, FMul(x - 4620, x - 4620) + 263)
                  + FMul(-213, FMul(x - 5900, x - 5900))
                  + FMul(-121, FMul(FMul(x - 5900, x - 5900), x - 5900))
      [] k = 4 -> -3090 + FMul(1825, x) + FDiv(1206, FMul(x - 4620, x - 4620) + 263)
      [] k = 5 -> polyval(<<374, -420, 4257, 13670>>, x - 8000)

RECURSIVE assignedA(_, _), assignedB(_, _)
\* the element of a and of b for one x after the assignments of the regimes
\* 1..k, in the order of the code
assignedA(k, x) ==
    IF k = 0 THEN unwritten
    ELSE masked(assignedA(k - 1, x), regimeMask(k, x), regimeA(k, x))
assignedB(k, x) ==
    IF k = 0 THEN unwritten
    ELSE masked(assignedB(k - 1, x), regimeMask(k, x), regimeB(k, x))

\* the curves a and b of CardelliExtinction.f on one x of [0.3,10]
CCMa(x) == assignedA(5, x)
CCMb(x) == assignedB(5, x)

\* a law whose range test leaves out the two ends of [0.3,10]
outsideCCM_open(x) == x <= 300 \/ 10000 <= x

\* (x<0.3)|(10<x)
outsideCCM(x) == x < 300 \/ 10000 < x

\* CardelliExtinction.f on one wavelength inside the range: a+b/self.Rv
CardelliF(self, lamb) == CCMa(invMicron(lamb)) + FDiv(CCMb(invMicron(lamb)), self.Rv)

\* self.f(lamb): a scalar for a scalar, an array of the same length for an
\* array.  The attribute f that Extinction.__init__ stores on the object
\* hides the method, and is an object that cannot be called.
f(self, lamb) ==
    CASE self.kind = "CalzettiExtinction" -> Ok([arr |-> lamb.arr, v |-> [i \in 1..Len(lamb.v) |-> CalzettiF(lamb.v[i])]])
      [] self.kind \in FMKinds ->
            IF lamb.arr THEN Ok(Arr(FMfArray(self, lamb.v)))
            ELSE Ok(Scalar(FMf(self, lamb.v[1])))
      [] self.kind = "CardelliExtinction" ->
            IF \E i \in 1..Len(lamb.v) : outsideCCM(invMicron(lamb.v[i]))
            THEN Fail("ValueError")
            ELSE Ok([arr |-> lamb.arr, v |-> [i \in 1..Len(lamb.v) |-> CardelliF(self, lamb.v[i])]])
      [] self.kind = "Extinction" /\ "f" \in DOMAIN self -> Fail("TypeError")
      [] OTHER -> Fail("NotImplementedError")

\* A0*fl for the outcome fl of self.f(lamb)
scaleBy(A0v, fl) ==
    IF fl.exc # "" THEN fl
    ELSE IF ~BroadcastOK(A0v, fl.val) THEN Fail("ValueError")
    ELSE Ok(NMul(A0v, fl.val))

\* a law whose value is its shape alone
__call___shapeOnly(self, lamb) == f(self, lamb)

\* Extinction.__call__: self.A0*self.f(lamb)
__call__(self, lamb) == scaleBy(self.A0, f(self, lamb))

(***************************************************************************)
(* Spectrum objects (astropysics.spec.Spectrum): x holds the wavelengths   *)
(* the spectrum shows under the unit 'wavelength-angstrom'                 *)
(***************************************************************************)
WL == "wavelength-angstrom"

\* 10**(a/2.5) on one number
corrOf(a) == Pow10(FDiv(a, 2500))

\* a *= c for a sequence a: the product has to fit the shape of a
imulOK(a, c) == Len(c.v) = 1 \/ Len(c.v) = Len(a)
imul(a, c) == [i \in 1..Len(a) |-> FMul(a[i], At(c, i))]

\* 10**(a/2.5)
tenTo(a) == [arr |-> a.arr, v |-> [i \in 1..Len(a.v) |-> corrOf(a.v[i])]]

\* the outcome of correctSpectrum: val is the spectrum returned, arg the state
\* of the caller's spectrum object after the call, same tells whether the
\* object returned is the caller's object
raised(exc, spec, newspec) ==
    [exc |-> exc, val |-> <<>>, same |-> ~newspec,
     arg |-> IF newspec THEN spec ELSE [spec EXCEPT !.unit = WL]]
returned(done, spec, newspec) ==
    [exc |-> "", val |-> done, same |-> ~newspec, arg |-> IF newspec THEN spec ELSE done]

\* spec.flux *= corr; spec.err *= corr; spec.unit = oldunit; return spec
multiplied(spec, newspec, corr) ==
    IF ~imulOK(spec.flux, corr) THEN raised("ValueError", spec, newspec)
    ELSE returned([spec EXCEPT !.flux = imul(@, corr), !.err = imul(@, corr)], spec, newspec)

\* the statements of correctSpectrum after c = self(spec.x) was computed
\* under the unit 'wavelength-angstrom'
correctWith(spec, newspec, c) ==
    IF c.exc # "" THEN raised(c.exc, spec, newspec)
    ELSE multiplied(spec, newspec, tenTo(c.val))

\* a correction that never copies the spectrum
correctSpectrum_neverCopies(self, spec, newspec) ==
    correctWith(spec, FALSE, __call__(self, Arr(spec.x)))

\* Extinction.correctSpectrum(spec, newspec)
correctSpectrum(self, spec, newspec) ==
    correctWith(spec, newspec, __call__(self, Arr(spec.x)))

(***************************************************************************)
(* Calibration of the normalization                                        *)
(***************************************************************************)
\* Extinction.__balmerratios: name -> (ratio, lambda1, lambda2)
__balmerratios ==
    [Hab |-> <<2860, 656282, 486133>>,
     Hag |-> <<6160, 656282, 434046>>,
     Had |-> <<11210, 656282, 410174>>,
     Hae |-> <<18160, 656282, 397007>>,
     Hbg |-> <<2150, 486133, 434046>>,
     Hbd |-> <<3910, 486133, 410174>>,
     Hbe |-> <<6330, 486133, 397007>>,
     Hgd |-> <<1820, 434046, 410174>>,
     Hge |-> <<2950, 434046, 397007>>,
     Hde |-> <<1620, 410174, 397007>>]

\* the filterfunc arguments of the model: None, np.mean
applyFilter(filterfunc, a) == IF filterfunc = "mean" THEN Mean(a) ELSE a

\* the element of the table column col for every name of the list q
column(q, col) == [i \in 1..Len(q) |-> __balmerratios[q[i].s][col]]

\* the branch on the form of `expected`: what R, R0, lambda1 and lambda2 are
\* when the formula is reached, or the exception raised before it.  Rset is
\* FALSE when the branch taken never assigned R.
ratioInputs(measured, expected, lambda1, lambda2) ==
    LET none == [exc |-> "", lambda1 |-> Fail(""), lambda2 |-> Fail(""), Rset |-> FALSE,
                 R |-> Fail(""), R0 |-> Fail("")]
    IN  IF isStr(expected)
        THEN IF expected.s \notin DOMAIN __balmerratios
             THEN [none EXCEPT !.exc = "KeyError"]
             ELSE [exc |-> "", lambda1 |-> Ok(Scalar(__balmerratios[expected.s][2])), lambda2 |-> Ok(Scalar(__balmerratios[expected.s][3])),
                   Rset |-> TRUE,
                   R |-> operand(measured),
                   R0 |-> Ok(Scalar(__balmerratios[expected.s][1]))]
        ELSE IF ~isSeq(expected) THEN [none EXCEPT !.exc = "TypeError"]
        ELSE IF Len(expected.q) = 0 THEN [none EXCEPT !.exc = "IndexError"]
        ELSE IF isStr(expected.q[1])
        THEN IF ~(\A i \in 1..Len(expected.q) : isStr(expected.q[i]))
             THEN [none EXCEPT !.exc = "ValueError"]
             ELSE IF \E i \in 1..Len(expected.q) : expected.q[i].s \notin DOMAIN __balmerratios
             THEN [none EXCEPT !.exc = "KeyError"]
             ELSE [exc |-> "", lambda1 |-> Ok(Arr(column(expected.q, 2))), lambda2 |-> Ok(Arr(column(expected.q, 3))),
                   Rset |-> FALSE,
                   R |-> Fail(""),
                   R0 |-> Ok(Arr(column(expected.q, 1)))]
        ELSE IF truthRaises(lambda1) \/ (truth(lambda1) /\ truthRaises(lambda2))
             THEN [none EXCEPT !.exc = "ValueError"]
             ELSE IF truth(lambda1) /\ truth(lambda2)
             THEN [exc |-> "", lambda1 |-> nparray(lambda1), lambda2 |-> nparray(lambda2),
                   Rset |-> TRUE,
                   R |-> nparray(measured), R0 |-> nparray(expected)]
             ELSE [none EXCEPT !.exc = "ValueError"]

\* self.f(l) for an l that may not be usable in arithmetic (1e4/l raises)
fOf(self, l) ==
    IF l.exc = "" THEN f(self, l.val)
    ELSE IF self.kind = "Extinction" THEN Fail("NotImplementedError")
    ELSE Fail("TypeError")

\* -2.5*np.log10(q)
logRatio(q) == [arr |-> q.arr, v |-> [i \in 1..Len(q.v) |-> FMul(-2500, Log10(q.v[i]))]]

\* A0 = -2.5*np.log10(R/R0)/(self.f(lambda1)-self.f(lambda2))
formulaA0(self, in) ==
    IF ~in.Rset THEN Fail("UnboundLocalError")
    ELSE IF in.R.exc # "" \/ in.R0.exc # "" THEN Fail("TypeError")
    ELSE IF ~BroadcastOK(in.R.val, in.R0.val) THEN Fail("ValueError")
    ELSE LET num == logRatio(NDiv(in.R.val, in.R0.val))
             f1 == fOf(self, in.lambda1)
             f2 == fOf(self, in.lambda2)
         IN  IF f1.exc # "" THEN f1
             ELSE IF f2.exc # "" THEN f2
             ELSE IF ~BroadcastOK(f1.val, f2.val) THEN Fail("ValueError")
             ELSE IF ~BroadcastOK(num, NSub(f1.val, f2.val)) THEN Fail("ValueError")
             ELSE Ok(NDiv(num, NSub(f1.val, f2.val)))

\* a law that computes the dispersion from the array before the filterfunc
storeAndReturn_stdOfRaw(filterfunc, raw) ==
    [A0 |-> applyFilter(filterfunc, raw), val |-> <<applyFilter(filterfunc, raw), Std(raw)>>]

\* self.A0 = A0 = filterfunc(A0); return A0,np.std(A0)
storeAndReturn(filterfunc, raw) ==
    LET new == applyFilter(filterfunc, raw)
    IN  [A0 |-> new, val |-> <<new, Std(new)>>]

\* Extinction.computeA0FromFluxRatio.  val is the pair returned, A0 the
\* normalization of the law after the call.
computeA0FromFluxRatio(self, measured, expected, lambda1, lambda2, filterfunc) ==
    LET in == ratioInputs(measured, expected, lambda1, lambda2)
        raw == formulaA0(self, in)
        end == storeAndReturn(filterfunc, raw.val)
    IN  IF in.exc # "" THEN [A0 |-> self.A0, exc |-> in.exc, val |-> <<>>]
        ELSE IF raw.exc # "" THEN [A0 |-> self.A0, exc |-> raw.exc, val |-> <<>>]
        ELSE [A0 |-> end.A0, exc |-> "", val |-> end.val]

(***************************************************************************)
(* Band names and photometric corrections.  A string that the code takes   *)
(* apart is held as the sequence of its characters (PyChars).              *)
(***************************************************************************)
\* a string of the given characters, and the characters of such a string
PyChars(cs) ==
    [n |-> 0, s |-> "", t |-> "str",
     q |-> [i \in 1..Len(cs) |-> [n |-> 0, s |-> cs[i], t |-> "chr", q |-> <<>>]]]
chars(p) == [i \in 1..Len(p.q) |-> p.q[i].s]

\* astropysics.phot.bandwl: band name -> wavelength in Angstrom
bandwl ==
    [b \in {<<"U">>, <<"B">>, <<"V">>, <<"R">>, <<"I">>} |->
        CASE b = <<"U">> -> 365000
          [] b = <<"B">> -> 445000
          [] b = <<"V">> -> 551000
          [] b = <<"R">> -> 658000
          [] b = <<"I">> -> 806000]

RECURSIVE remove(_, _)
\* s.replace(old,'')
remove(s, old) ==
    IF Len(s) < Len(old) THEN s
    ELSE IF SubSeq(s, 1, Len(old)) = old THEN remove(SubSeq(s, Len(old) + 1, Len(s)), old)
    ELSE <<Head(s)>> \o remove(Tail(s), old)

RECURSIVE split(_, _)
\* s.split(sep) for a separator of one character: the list of the parts
split(s, sep) ==
    IF \A i \in 1..Len(s) : s[i] # sep THEN <<s>>
    ELSE LET k == CHOOSE i \in 1..Len(s) : s[i] = sep /\ \A j \in 1..(i - 1) : s[j] # sep
         IN  <<SubSeq(s, 1, k - 1)>> \o split(SubSeq(s, k + 1, Len(s)), sep)

NAdd(a, b) == [arr |-> a.arr \/ b.arr, v |-> [i \in 1..BLen(a, b) |-> At(a, i) + At(b, i)]]

\* self(l.val) for the outcome l of reading an argument as a number or an
\* array: the shape of a law raises TypeError on a string (1e4/lamb), the
\* base class raises before it looks at lamb
callOn(self, l) ==
    IF l.exc = "" THEN __call__(self, l.val)
    ELSE IF self.kind = "Extinction" /\ "f" \notin DOMAIN self THEN Fail("NotImplementedError")
    ELSE Fail("TypeError")

\* self(p) for an argument p as the caller passed it
selfOf(self, p) == callOn(self, operand(p))

\* wl = bandwl[band] if isinstance(band,basestring) else band
bandOrWl(band) ==
    IF isStr(band)
    THEN IF chars(band) \in DOMAIN bandwl THEN Ok(PyNum(bandwl[chars(band)])) ELSE Fail("KeyError")
    ELSE Ok(band)

\* a subtraction that adds
minus_adds(m, e) ==
    IF e.exc # "" THEN e
    ELSE IF ~BroadcastOK(m, e.val) THEN Fail("ValueError")
    ELSE Ok(NAdd(m, e.val))

\* m - e for a value m and the outcome e of a call
minus(m, e) ==
    IF e.exc # "" THEN e
    ELSE IF ~BroadcastOK(m, e.val) THEN Fail("ValueError")
    ELSE Ok(NSub(m, e.val))

\* return mags-self(wl), wl being the outcome of the lookup
photometryAt(self, mags, wl) ==
    IF wl.exc # "" THEN wl ELSE minus(mags, selfOf(self, wl.val))

\* Extinction.correctPhotometry(mags, band)
correctPhotometry(self, mags, band) == photometryAt(self, mags, bandOrWl(band))

\* -1*self.correctPhotometry(0,b)
AlambdaOne(self, b) ==
    IF correctPhotometry(self, Scalar(0), b).exc # "" THEN correctPhotometry(self, Scalar(0), b)
    ELSE Ok(NMul(Scalar(-Scale), correctPhotometry(self, Scalar(0), b).val))

\* np.array of the rows computed for the elements of a sequence, or the
\* first exception that an element raised
rowsOrFirst(rows) ==
    IF \E i \in 1..Len(rows) : rows[i].exc # ""
    THEN rows[CHOOSE i \in 1..Len(rows) :
                 rows[i].exc # "" /\ \A j \in 1..(i - 1) : rows[j].exc = ""]
    ELSE Ok([i \in 1..Len(rows) |-> rows[i].val])

\* Extinction.Alambda(band)
Alambda(self, band) ==
    IF isSeq(band)
    THEN rowsOrFirst([i \in 1..Len(band.q) |-> AlambdaOne(self, band.q[i])])
    ELSE AlambdaOne(self, band)

\* b1,b2 = ...: the two elements of a sequence of two
unpack2(q) == IF Len(q) = 2 THEN Ok(q) ELSE Fail("ValueError")

\* the band pair of correctColor: for a string, the strings of
\* bands.replace('E(','').replace(')','').split(',')
bandPair(bands) ==
    IF isStr(bands)
    THEN unpack2([i \in 1..Len(split(remove(remove(chars(bands), <<"E", "(">>), <<")">>), ","))
                     |-> PyChars(split(remove(remove(chars(bands), <<"E", "(">>), <<")">>), ",")[i])])
    ELSE unpack2(bands.q)

\* wl2 = bandwl[b2] if isinstance(b1,basestring) else b2: the table is asked
\* for b2, whatever b2 is, when b1 is a string
secondWl(b1, b2) ==
    IF isStr(b1)
    THEN IF isStr(b2) /\ chars(b2) \in DOMAIN bandwl THEN Ok(PyNum(bandwl[chars(b2)]))
         ELSE Fail("KeyError")
    ELSE Ok(b2)

\* c + e for the outcomes c and e of two computations, c the earlier one
plus(c, e) ==
    IF c.exc # "" THEN c
    ELSE IF e.exc # "" THEN e
    ELSE IF ~BroadcastOK(c.val, e.val) THEN Fail("ValueError")
    ELSE Ok(NAdd(c.val, e.val))

\* return colors-self(wl1)+self(wl2), wl1 and wl2 being the outcomes of the
\* two lookups
colorAt(self, colors, wl1, wl2) ==
    IF wl1.exc # "" THEN wl1
    ELSE IF wl2.exc # "" THEN wl2
    ELSE plus(minus(colors, selfOf(self, wl1.val)), selfOf(self, wl2.val))

\* the statements of correctColor after the pair b1,b2 was unpacked
colorOfPair(self, colors, pair) ==
    IF pair.exc # "" THEN pair
    ELSE colorAt(self, colors, bandOrWl(pair.val[1]), secondWl(pair.val[1], pair.val[2]))

\* Extinction.correctColor(colors, bands)
correctColor(self, colors, bands) == colorOfPair(self, colors, bandPair(bands))

\* Extinction.__builtinlines: line name -> wavelength
__builtinlines == [Ha |-> 656282, Hb |-> 486133, Hg |-> 434046, Hd |-> 410174, He |-> 397007]

\* if isinstance(lamb,basestring) and lamb in Extinction.__builtinlines: ...
lineOrWl(lamb) ==
    IF isStr(lamb) /\ lamb.s \in DOMAIN __builtinlines THEN PyNum(__builtinlines[lamb.s])
    ELSE lamb

\* flux*10**(e/2.5) for the outcome e of self(lamb)
fluxTimes(fl, e) ==
    IF e.exc # "" THEN e
    ELSE IF ~BroadcastOK(fl, e.val) THEN Fail("ValueError")
    ELSE Ok(NMul(fl, tenTo(e.val)))

\* Extinction.correctFlux(flux, lamb)
correctFlux(self, fl, lamb) == fluxTimes(fl, selfOf(self, lineOrWl(lamb)))

(***************************************************************************)
(* The normalization of an _EBmVExtinction as a color excess               *)
(***************************************************************************)
\* _EBmVExtinction.__lambdaV = bandwl['V']
__lambdaV == bandwl[<<"V">>]

\* A0*fV/Rv for the outcome fV of self.f(self.__lambdaV)
excessOf(A0v, Rv, fV) == IF fV.exc # "" THEN fV ELSE Ok(NDiv(NMul(A0v, fV.val), Scalar(Rv)))

\* _EBmVExtinction._getEBmV: self.A0*self.f(self.__lambdaV)/self.Rv
_getEBmV(self) == excessOf(self.A0, self.Rv, f(self, Scalar(__lambdaV)))

\* self.A0 = Av/fV for the outcome fV of self.f(self.__lambdaV)
normalizedTo(A0v, Av, fV) ==
    IF fV.exc # "" THEN [A0 |-> A0v, exc |-> fV.exc]
    ELSE [A0 |-> NDiv(Scalar(Av), fV.val), exc |-> ""]

\* a setter that leaves Rv out of the normalization
_setEBmV_noRv(self, val) == normalizedTo(self.A0, val, f(self, Scalar(__lambdaV)))

\* _EBmVExtinction._setEBmV: Av=self.Rv*val; self.A0=Av/self.f(self.__lambdaV)
_setEBmV(self, val) ==
    normalizedTo(self.A0, FMul(self.Rv, val), f(self, Scalar(__lambdaV)))

(***************************************************************************)
(* State: one extinction-law object.  kind is its class, params its        *)
(* attributes Rv, C1, C2, C3, C4, x0 and gamma (all 0 for a class that     *)
(* has none of them), A0 its normalization, _plbuffer its _plbuffer        *)
(* (alloc = FALSE stands for None), ret the outcome of the last call made  *)
(* on it.  hist records, for the statements below, the calls made since    *)
(* construction (calls, saturating at MaxCalls), the lengths of the two queues that the call just made     *)
(* discarded (dropped) and, since the last _plClear, the spectra fed       *)
(* (fed), the normalization at every _plProcess that returned (law), the   *)
(* entries dequeued by a _plProcess that raised (lost) and the entries     *)
(* returned by _plExtract (taken).                                         *)
(***************************************************************************)
\* the attributes of a law that is no _EBmVExtinction
noParams == [x0 |-> 0, gamma |-> 0, C1 |-> 0, C2 |-> 0, C3 |-> 0, C4 |-> 0, Rv |-> 0]

self == [kind |-> kind, A0 |-> A0] @@ params

None == <<>>
noBuffer == [in |-> <<>>, alloc |-> FALSE, out |-> <<>>]
\* if self._plbuffer is None: self._plbuffer = {'in':[],'out':[]}
lazyBuffer(b) == [b EXCEPT !.alloc = TRUE]

noHist == [fed |-> <<>>, law |-> <<>>, lost |-> <<>>, taken |-> <<>>]
called(h) == [h EXCEPT !.calls = IF @ < MaxCalls THEN @ + 1 ELSE @, !.dropped = <<0, 0>>]

Kinds == {"Extinction", "CalzettiExtinction"}

Init ==
    /\ kind \in Kinds
    /\ params = noParams
    /\ A0 = Scalar(Scale)
    /\ _plbuffer = noBuffer
    /\ ret = [exc |-> "", val |-> None, op |-> "__init__", args |-> <<>>]
    /\ hist = [fed |-> noHist.fed, law |-> noHist.law, lost |-> noHist.lost, taken |-> noHist.taken,
                           calls |-> 0, dropped |-> <<0, 0>>]

\* a function passed as f: lambda lamb: 1e4/lamb
PyFunction == [n |-> 0, s |-> "lambda lamb: 1e4/lamb", t |-> "function", q |-> <<>>]

\* what a call of the function returns
called1e4(lamb) == [arr |-> lamb.arr, v |-> [i \in 1..Len(lamb.v) |-> invMicron(lamb.v[i])]]

\* Extinction.__init__(f, A0): the attributes of the new object, or the
\* exception
__init__(fArg, A0Arg) ==
    IF fArg.t # "None" /\ fArg.t = "function" THEN [params |-> noParams, A0 |-> A0Arg, exc |-> "ValueError"]
    ELSE IF fArg.t # "None" THEN [params |-> [x0 |-> 0, gamma |-> 0, C1 |-> 0, C2 |-> 0, C3 |-> 0, C4 |-> 0,
                                        Rv |-> 0, f |-> fArg], A0 |-> A0Arg,
          exc |-> ""]
    ELSE [params |-> noParams, A0 |-> A0Arg, exc |-> ""]

\* the classes that can be instantiated (the constructor of _EBmVExtinction
\* itself raises, its f being abstract) and those with the property EBmV
EBmVKinds == FMKinds \cup {"CardelliExtinction"}
LawKinds == Kinds \cup EBmVKinds

\* the shape constants the constructors store: those of LMCExtinction and
\* SMCExtinction, and the arguments C1,C2,C3,C4,x0,gamma passed to
\* FMExtinction here
shapeArgs(cls) ==
    CASE cls = "LMCExtinction" -> [x0 |-> 4579, gamma |-> 934, C1 |-> -890, C2 |-> 998, C3 |-> 2719, C4 |-> 400]
      [] cls = "SMCExtinction" -> [x0 |-> 4600, gamma |-> 1000, C1 |-> -4959, C2 |-> 2264, C3 |-> 389, C4 |-> 461]
      [] cls = "FMExtinction" -> [x0 |-> 4596, gamma |-> 990, C1 |-> -70, C2 |-> 700, C3 |-> 3230, C4 |-> 410]
      [] OTHER -> [x0 |-> 0, gamma |-> 0, C1 |-> 0, C2 |-> 0, C3 |-> 0, C4 |-> 0]

\* the defaults of the constructor arguments EBmV and Rv
defaults(cls) ==
    CASE cls = "LMCExtinction" -> [Rv |-> 3410, EBmV |-> 300]
      [] cls = "SMCExtinction" -> [Rv |-> 2740, EBmV |-> 200]
      [] OTHER -> [Rv |-> 3100, EBmV |-> 1000]

\* the values passed as EBmV besides the default, and assigned to it later
EBmVs == {200, 500}

\* the attributes and the normalization after cls(EBmV=EBmV, Rv=Rv), or
\* after cls() for a class without these arguments
construct(cls, EBmV, Rv) ==
    IF cls \in EBmVKinds
    THEN LET p == [x0 |-> shapeArgs(cls).x0, gamma |-> shapeArgs(cls).gamma, C1 |-> shapeArgs(cls).C1,
                   C2 |-> shapeArgs(cls).C2, C3 |-> shapeArgs(cls).C3,
                   C4 |-> shapeArgs(cls).C4, Rv |-> Rv]
         IN  [params |-> p,
              A0 |-> _setEBmV([kind |-> cls, A0 |-> Scalar(Scale)] @@ p, EBmV).A0]
    ELSE [params |-> noParams, A0 |-> Scalar(Scale)]

\* a law of any class after its construction
InitLaw ==
    \E cls \in LawKinds :
        \E EBmV \in IF cls \in EBmVKinds THEN {defaults(cls).EBmV} \cup EBmVs ELSE {0} :
            \E new \in {construct(cls, EBmV, defaults(cls).Rv)} :
                /\ kind = cls
                /\ params = new.params
                /\ A0 = new.A0
                /\ _plbuffer = noBuffer
                /\ ret = [exc |-> "", val |-> None,
                         op |-> "__init__", args |-> IF cls \in EBmVKinds THEN <<EBmV>> ELSE <<>>]
                /\ hist = [fed |-> noHist.fed, law |-> noHist.law, lost |-> noHist.lost, taken |-> noHist.taken,
                           calls |-> 0, dropped |-> <<0, 0>>]

(***************************************************************************)
(* Arguments of the calls                                                  *)
(***************************************************************************)
\* longest spectrum fed and longest sequence passed to the calibration
MaxSpecLen == 2
MaxMeas == 2

lines == <<656282, 486133, 434046, 410174, 397007>>
Units == {WL, "frequency-Hz"}

spectrum(n, unit) ==
    [x |-> SubSeq(lines, 1, n), unit |-> unit,
     flux |-> [i \in 1..n |-> i * Scale], err |-> [i \in 1..n |-> i * 100],
     cls |-> "Spectrum"]
notSpectrum == [x |-> <<>>, unit |-> "", flux |-> <<>>, err |-> <<>>, cls |-> "ndarray"]

Spectra == {spectrum(n, u) : n \in 1..MaxSpecLen, u \in Units}
Items == Spectra \cup {notSpectrum}

\* measured ratios (all positive) and the forms of `expected`
ratios == <<3500, 7000, 12000, 20000>>
names == <<"Hab", "Hag", "Had", "Hae">>
Measured == {PyNum(ratios[1]), PyNd([i \in 1..MaxMeas |-> PyNum(ratios[i])])}
Expected ==
    {PyStr("Hab"), PyStr("Hxx"), PyNum(2860),
     PyList([i \in 1..MaxMeas |-> PyStr(names[i])]),
     PyList([i \in 1..MaxMeas |-> PyNum(__balmerratios[names[i]][1])]),
     PyList([i \in 1..MaxMeas |-> IF i = 1 THEN PyStr(names[i])
                                  ELSE PyNum(__balmerratios[names[i]][1])]),
     PyList([i \in 1..MaxMeas |-> IF i = 1 THEN PyNum(__balmerratios[names[i]][1])
                                  ELSE PyStr(names[i])]),
     PyList([i \in 1..MaxMeas |-> IF i = 1 THEN PyStr(names[i]) ELSE PyStr("Hxx")])}
\* the wavelength pairs passed as (lambda1, lambda2): lambda1 # lambda2
Lambdas ==
    {<<PyNone, PyNone>>, <<PyNum(lines[1]), PyNone>>, <<PyNum(lines[1]), PyNum(lines[2])>>,
     <<PyList([i \in 1..MaxMeas |-> PyNum(lines[1])]),
       PyList([i \in 1..MaxMeas |-> PyNum(lines[i + 1])])>>}
Filters == {"None", "mean"}

\* wavelengths from the far ultraviolet to the infrared: 1e4/lamb is 1.81,
\* 0.3, 10, 8, 5.9, 11.1 and 0.25
waves == <<551000, 3333333, 100000, 125000, 169491, 90000, 4000000, 909090, 303030>>
\* the wavelength arguments: a number, or an array of consecutive elements of
\* waves
WaveArgs ==
    {Scalar(waves[i]) : i \in 1..Len(waves)}
    \cup {Arr(SubSeq(waves, i, i + n - 1)) : i \in 1..(Len(waves) - MaxSpecLen + 1), n \in 1..MaxSpecLen}

\* a spectrum on the given wavelengths
spectrumOn(x, unit) ==
    [x |-> x, unit |-> unit,
     flux |-> [i \in 1..Len(x) |-> i * Scale], err |-> [i \in 1..Len(x) |-> i * 100],
     cls |-> "Spectrum"]
\* the spectra corrected directly: optical ones and ones that reach 4 microns
reaching == <<656282, 4000000, 486133, 434046>>
LawSpectra ==
    {spectrumOn(SubSeq(lines, 1, n), u) : n \in 1..MaxSpecLen, u \in Units}
    \cup {spectrumOn(SubSeq(reaching, 1, MaxSpecLen), u) : u \in Units}

\* magnitudes, colors and fluxes
Mags == {Scalar(15000), Arr([i \in 1..MaxMeas |-> 15000 + i * Scale])}
\* a band: a name of the table, another name, or a wavelength
Bands == {PyChars(<<"V">>), PyChars(<<"B">>), PyChars(<<"Q">>), PyNum(lines[1])}
\* sequences of bands
BandSeqs ==
    {PyList(<<PyChars(<<"B">>), PyNum(lines[1])>>), PyList(<<PyChars(<<"V">>), PyChars(<<"Q">>)>>),
     PyNd([i \in 1..MaxMeas |-> PyNum(lines[i])])}
\* the band pairs of correctColor: the three forms of a string, and pairs of
\* names and wavelengths
BandPairs ==
    {PyChars(<<"E", "(", "B", "-", "V", ")">>), PyChars(<<"B", "-", "V">>), PyChars(<<"B", ",", "V">>),
     PyChars(<<"Q", ",", "V">>), PyChars(<<"E", "(", "Q", "-", "V", ")">>)}
    \cup {PyList(<<b1, b2>>) : b1 \in Bands \ {PyChars(<<"V">>)}, b2 \in Bands \ {PyChars(<<"B">>)}}
\* the lamb of correctFlux: a line of the table, another name, a wavelength
FluxLines == {PyStr("Ha"), PyStr("Hz"), PyNum(lines[2])}
\* measured ratios close to the expected one
LawMeasured == {PyNum(3000), PyNd([i \in 1..MaxMeas |-> PyNum(2900 + 100 * i)])}

(***************************************************************************)
(* The calls                                                               *)
(***************************************************************************)
\* a feed that appends the entry before it looks at the class of data
feedEntry_appendsFirst(b, data) ==
    [exc |-> IF data.cls = "Spectrum" THEN "" ELSE "PipelineError",
     buf |-> [b EXCEPT !.in = Append(@, <<"spec", data>>)]]

\* if isinstance(data,Spectrum): ...append(('spec',data)) else: raise
feedEntry(b, data) ==
    IF data.cls = "Spectrum"
    THEN [exc |-> "", buf |-> [b EXCEPT !.in = Append(@, <<"spec", data>>)]]
    ELSE [exc |-> "PipelineError", buf |-> b]

\* Extinction._plFeed(data, src)
_plFeed ==
    \E data \in Items :
        LET r == feedEntry(lazyBuffer(_plbuffer), data)
        IN  /\ data.cls = "Spectrum" => Len(hist.fed) < MaxQueue
            /\ _plbuffer' = r.buf
            /\ ret' = [exc |-> r.exc, val |-> None, op |-> "_plFeed", args |-> <<data>>]
            /\ hist' = IF r.exc = "" THEN [called(hist) EXCEPT !.fed = Append(@, data)]
                       ELSE called(hist)
            /\ UNCHANGED <<kind, params, A0>>

\* the exception of the handler `self.insert(0,spec(type,data))`: the law has
\* no attribute insert, and the module no name spec
HandlerErrors == {"AttributeError"}

\* a process that takes the newest pending entry: pop()
popPending_last(in) == [item |-> in[Len(in)], rest |-> SubSeq(in, 1, Len(in) - 1)]

\* self._plbuffer['in'].pop(0)
popPending(in) == [item |-> Head(in), rest |-> Tail(in)]

\* Extinction._plProcess()
_plProcess ==
    LET b == lazyBuffer(_plbuffer)
    IN  /\ IF Len(b.in) = 0
           THEN /\ _plbuffer' = b
                /\ ret' = [exc |-> "IndexError", val |-> None, op |-> "_plProcess", args |-> <<>>]
                /\ hist' = called(hist)
           ELSE LET type == popPending(b.in).item[1]
                    data == popPending(b.in).item[2]
                    popped == [b EXCEPT !.in = popPending(b.in).rest]
                    newspec == correctSpectrum(self, data, TRUE)
                IN  IF type = "spec" /\ newspec.exc = ""
                    THEN /\ _plbuffer' = [popped EXCEPT !.out = Append(@, newspec.val)]
                         /\ ret' = [exc |-> "", val |-> None, op |-> "_plProcess", args |-> <<>>]
                         /\ hist' = [called(hist) EXCEPT !.law = Append(@, A0)]
                    ELSE \E e \in HandlerErrors :
                         /\ _plbuffer' = popped
                         /\ ret' = [exc |-> e, val |-> None, op |-> "_plProcess", args |-> <<>>]
                         /\ hist' = [called(hist) EXCEPT !.lost = Append(@, data)]
        /\ UNCHANGED <<kind, params, A0>>

\* len(self._plbuffer['out']<1): the comparison of a list with 1 gives no
\* object that has a length
lenOfLess(out) == Fail("TypeError")

\* Extinction._plExtract()
_plExtract ==
    LET b == lazyBuffer(_plbuffer)
        test == lenOfLess(b.out)
    IN  /\ IF test.exc # ""
           THEN /\ _plbuffer' = b
                /\ ret' = [exc |-> test.exc, val |-> None, op |-> "_plExtract", args |-> <<>>]
                /\ hist' = called(hist)
           ELSE IF test.val
           THEN /\ _plbuffer' = b
                /\ ret' = [exc |-> "", val |-> None, op |-> "_plExtract", args |-> <<>>]
                /\ hist' = called(hist)
           ELSE /\ _plbuffer' = [b EXCEPT !.out = Tail(@)]
                /\ ret' = [exc |-> "", val |-> <<Head(b.out)>>, op |-> "_plExtract", args |-> <<>>]
                /\ hist' = [called(hist) EXCEPT !.taken = Append(@, Head(b.out))]
        /\ UNCHANGED <<kind, params, A0>>

\* a clear that empties pending and keeps the buffer with its ready queue
_plClear_keepsReady ==
    /\ _plbuffer' = [_plbuffer EXCEPT !.in = <<>>]
    /\ ret' = [exc |-> "", val |-> None, op |-> "_plClear", args |-> <<>>]
    /\ hist' = [fed |-> noHist.fed,
                law |-> noHist.law,
                lost |-> noHist.lost, taken |-> noHist.taken, calls |-> called(hist).calls,
                dropped |-> <<Len(_plbuffer.in), Len(_plbuffer.out)>>]
    /\ UNCHANGED <<kind, params, A0>>

\* Extinction._plClear()
_plClear ==
    /\ _plbuffer' = noBuffer
    /\ ret' = [exc |-> "", val |-> None, op |-> "_plClear", args |-> <<>>]
    /\ hist' = [fed |-> noHist.fed,
                law |-> noHist.law,
                lost |-> noHist.lost, taken |-> noHist.taken, calls |-> called(hist).calls,
                dropped |-> <<Len(_plbuffer.in), Len(_plbuffer.out)>>]
    /\ UNCHANGED <<kind, params, A0>>

\* a call of Extinction.computeA0FromFluxRatio with arguments of the given sets
calibrateFrom(M, E, L, F) ==
    \E measured \in M, expected \in E, lam \in L, filterfunc \in F :
        LET r == computeA0FromFluxRatio(self, measured, expected, lam[1], lam[2], filterfunc)
        IN  /\ A0' = r.A0
            /\ ret' = [exc |-> r.exc,
                       val |-> r.val,
                       op |-> "computeA0FromFluxRatio", args |-> <<measured, expected, lam[1], lam[2], filterfunc>>]
            /\ hist' = called(hist)
            /\ UNCHANGED <<kind, params, _plbuffer>>

\* every form of the arguments
calibrate == calibrateFrom(Measured, Expected, Lambdas, Filters)

\* between the pipeline calls: a named transition, no filterfunc
recalibrate == calibrateFrom(Measured, {PyStr("Hab")}, {<<PyNone, PyNone>>}, {"None"})

\* the pipeline of one law, its normalization changing in between
Next == _plFeed \/ _plProcess \/ _plExtract \/ _plClear \/ recalibrate

Spec == Init /\ [][Next]_vars

\* the calibration of one law
NextCal == calibrate

\* a call that puts the normalization back to 1
pureCall_normalizes(op, args, r) ==
    /\ ret' = [exc |-> r.exc, val |-> r.val, op |-> op, args |-> args]
    /\ hist' = called(hist)
    /\ A0' = Scalar(Scale)
    /\ UNCHANGED <<kind, params, _plbuffer>>

\* a call that returns r and changes nothing of the law
pureCall(op, args, r) ==
    /\ ret' = [exc |-> r.exc, val |-> r.val, op |-> op, args |-> args]
    /\ hist' = called(hist)
    /\ UNCHANGED <<kind, params, A0, _plbuffer>>

\* law(lamb)
evaluate == \E lamb \in WaveArgs : pureCall("__call__", <<lamb>>, __call__(self, lamb))

\* law.f(lamb)
shapeOf == \E lamb \in WaveArgs : pureCall("f", <<lamb>>, f(self, lamb))

\* law.correctPhotometry(mags, band)
photometry ==
    \E mags \in Mags, band \in Bands :
        pureCall("correctPhotometry", <<mags, band>>, correctPhotometry(self, mags, band))

\* law.Alambda(band)
extinctionAt ==
    \E band \in Bands \cup BandSeqs : pureCall("Alambda", <<band>>, Alambda(self, band))

\* law.correctColor(colors, bands)
color ==
    \E colors \in Mags, bands \in BandPairs :
        pureCall("correctColor", <<colors, bands>>, correctColor(self, colors, bands))

\* law.correctFlux(flux, lamb)
flux ==
    \E fl \in Mags, lamb \in FluxLines :
        pureCall("correctFlux", <<fl, lamb>>, correctFlux(self, fl, lamb))

\* law.correctSpectrum(spec, newspec): val holds the spectrum returned (val),
\* the caller's spectrum after the call (arg) and whether the two are one
\* object (same)
spectrumCorrection ==
    \E spec \in LawSpectra, newspec \in BOOLEAN :
        pureCall("correctSpectrum", <<spec, newspec>>,
                 [exc |-> correctSpectrum(self, spec, newspec).exc,
                  val |-> correctSpectrum(self, spec, newspec)])

\* law.EBmV = val
setColorExcess ==
    /\ kind \in EBmVKinds
    /\ \E val \in EBmVs :
        LET r == _setEBmV(self, val)
        IN  /\ A0' = r.A0
            /\ ret' = [exc |-> r.exc, val |-> None, op |-> "_setEBmV", args |-> <<val>>]
            /\ hist' = called(hist)
            /\ UNCHANGED <<kind, params, _plbuffer>>

\* law.EBmV
getColorExcess ==
    /\ kind \in EBmVKinds
    /\ pureCall("_getEBmV", <<>>, _getEBmV(self))

\* a calibration on a named transition or on a name that is none
calibrateLaw == calibrateFrom(LawMeasured, {PyStr("Hab"), PyStr("Hxx")}, {<<PyNone, PyNone>>}, {"None"})

\* the object that law = Extinction(f, A0) binds to the name of the law: the
\* name keeps the former object when the constructor raises
bound(fArg, A0Arg, new) ==
    /\ ret' = [exc |-> new.exc, val |-> None, op |-> "Extinction", args |-> <<fArg, A0Arg>>]
    /\ hist' = called(hist)
    /\ IF new.exc # "" THEN UNCHANGED <<kind, params, A0, _plbuffer>>
       ELSE /\ kind' = "Extinction"
            /\ params' = new.params
            /\ A0' = new.A0
            /\ _plbuffer' = noBuffer

\* law = Extinction(f, A0) for f = None, a function or a number
newLaw ==
    \E fArg \in {PyNone, PyFunction, PyNum(5 * Scale)}, A0Arg \in {Scalar(Scale), Scalar(2 * Scale)} :
        bound(fArg, A0Arg, __init__(fArg, A0Arg))

\* the calls on a law of any class that its pipeline takes no part in
NextLaw ==
    \/ evaluate \/ shapeOf \/ photometry \/ extinctionAt \/ color \/ flux
    \/ spectrumCorrection \/ setColorExcess \/ getColorExcess \/ calibrateLaw
    \/ newLaw

SpecLaw == InitLaw /\ [][NextLaw]_vars

\* fewer than MaxCalls calls have been made on the law
withinCalls == hist.calls < MaxCalls

\* each call as one of the first MaxCalls calls on the law
early_evaluate == withinCalls /\ evaluate
early_shapeOf == withinCalls /\ shapeOf
early_photometry == withinCalls /\ photometry
early_extinctionAt == withinCalls /\ extinctionAt
early_color == withinCalls /\ color
early_flux == withinCalls /\ flux
early_spectrumCorrection == withinCalls /\ spectrumCorrection
early_setColorExcess == withinCalls /\ setColorExcess
early_getColorExcess == withinCalls /\ getColorExcess
early_calibrateLaw == withinCalls /\ calibrateLaw
early_newLaw == withinCalls /\ newLaw
early_plFeed == withinCalls /\ _plFeed
early_plProcess == withinCalls /\ _plProcess
early_plExtract == withinCalls /\ _plExtract
early_plClear == withinCalls /\ _plClear

\* the first MaxCalls calls on a law of any class, its pipeline included
NextFrame ==
    \/ early_evaluate \/ early_shapeOf \/ early_photometry \/ early_extinctionAt
    \/ early_color \/ early_flux \/ early_spectrumCorrection \/ early_setColorExcess
    \/ early_getColorExcess \/ early_calibrateLaw \/ early_newLaw \/ early_plFeed
    \/ early_plProcess \/ early_plExtract \/ early_plClear

SpecFrame == InitLaw /\ [][NextFrame]_vars

SpecCal == Init /\ [][NextCal]_vars

(***************************************************************************)
(* Statements about the pipeline methods (checked under Spec)              *)
(***************************************************************************)
\* the law with the normalization a
lawAt(a) == [self EXCEPT !.A0 = a]
\* the copy-mode correction of a spectrum under the normalization a
corrected(spec, a) == correctSpectrum(lawAt(a), spec, TRUE).val

\* C1: on a freshly constructed law the three calls feed(spectrum),
\* process(), extract() all return, and extract() returns the spectrum that
\* correctSpectrum gives for the fed spectrum.
C1_FeedProcessExtract ==
    (/\ hist.calls = 3
     /\ ret.op = "_plExtract"
     /\ Len(hist.fed) = 1
     /\ Len(hist.law) = 1)
    => (/\ ret.exc = ""
        /\ ret.val = <<corrected(hist.fed[1], hist.law[1])>>)

\* C2: extract() never raises: with an empty ready queue it returns None and
\* leaves the queue empty, otherwise it removes and returns the oldest ready
\* entry.
C2_ExtractNothingReady ==
    [][ret'.op = "_plExtract" =>
         /\ ret'.exc = ""
         /\ IF _plbuffer.out = <<>>
            THEN ret'.val = None /\ _plbuffer'.out = <<>>
            ELSE ret'.val = <<Head(_plbuffer.out)>> /\ _plbuffer'.out = Tail(_plbuffer.out)]_vars

\* C3: a process() that fails on its entry puts the entry back: the pending
\* and the ready queue are after the call what they were before it.
C3_FailedProcessRequeues ==
    [][(ret'.op = "_plProcess" /\ ret'.exc # "" /\ _plbuffer.in # <<>>) =>
         /\ _plbuffer'.in = _plbuffer.in
         /\ _plbuffer'.out = _plbuffer.out]_vars

\* C9 as stated: a feed of something that is no Spectrum raises the pipeline
\* error and leaves the buffer as it was, an unallocated buffer unallocated; a
\* feed of a Spectrum appends ('spec', item) to pending and changes nothing
\* else.
C9_FailedFeedKeepsBuffer ==
    [][ret'.op = "_plFeed" =>
         IF ret'.args[1].cls # "Spectrum"
         THEN ret'.exc = "PipelineError" /\ _plbuffer' = _plbuffer
         ELSE /\ ret'.exc = ""
              /\ _plbuffer'.in = Append(_plbuffer.in, <<"spec", ret'.args[1]>>)
              /\ _plbuffer'.out = _plbuffer.out
              /\ A0' = A0 /\ kind' = kind]_vars

\* C9 amended: a feed of something that is no Spectrum raises the pipeline
\* error and leaves both queues with the same entries in the same order, but
\* the buffer is allocated afterwards (an adapter that was EMPTY holds two
\* empty queues); a feed of a Spectrum appends ('spec', item) to pending and
\* changes nothing else.
C9_FailedFeedKeepsQueues ==
    [][ret'.op = "_plFeed" =>
         /\ _plbuffer'.alloc
         /\ IF ret'.args[1].cls # "Spectrum"
            THEN /\ ret'.exc = "PipelineError"
                 /\ _plbuffer'.in = _plbuffer.in
                 /\ _plbuffer'.out = _plbuffer.out
                 /\ A0' = A0 /\ kind' = kind
            ELSE /\ ret'.exc = ""
                 /\ _plbuffer'.in = Append(_plbuffer.in, <<"spec", ret'.args[1]>>)
                 /\ _plbuffer'.out = _plbuffer.out
                 /\ A0' = A0 /\ kind' = kind]_vars

\* a failed feed has just left a buffer that holds an entry
C9_Witness ==
    /\ ret.op = "_plFeed"
    /\ ret.exc = "PipelineError"
    /\ Len(_plbuffer.in) > 0
    /\ Len(_plbuffer.out) > 0

\* C10: as long as no process() has failed on an entry since the last
\* clear(), ready holds the corrected forms of the first k spectra fed, in
\* feed order, k being the number of process() calls that returned, each
\* corrected under the normalization of its process() call, and pending holds
\* the other spectra fed, in feed order.
C10_Fifo ==
    (hist.lost = <<>> /\ hist.taken = <<>>) =>
        LET k == Len(hist.law)
        IN  /\ k <= Len(hist.fed)
            /\ _plbuffer.out = [i \in 1..k |-> corrected(hist.fed[i], hist.law[i])]
            /\ _plbuffer.in = [i \in 1..(Len(hist.fed) - k) |-> <<"spec", hist.fed[k + i]>>]

\* two different spectra were fed and both are processed
C10_Witness ==
    /\ Len(hist.fed) = 2
    /\ hist.fed[1] # hist.fed[2]
    /\ Len(_plbuffer.out) = 2
    /\ hist.lost = <<>>

\* every entry of the queues and every entry extracted comes from a spectrum
\* fed since the last clear()
fedSinceClear(spec) == \E j \in 1..Len(hist.fed) : hist.fed[j] = spec
correctedSinceClear(spec) ==
    \E j \in 1..Len(hist.fed), k \in 1..Len(hist.law) :
        spec = corrected(hist.fed[j], hist.law[k])

\* C11: clear() leaves the law without a buffer, whatever the queues held;
\* the first feed/process/extract on a law without a buffer allocates one
\* whose ready queue is empty and whose pending queue holds at most the
\* spectrum just fed; and in every state the pending entries are spectra fed
\* since the last clear(), the ready entries and the entries extracted are
\* corrected forms of spectra fed since the last clear().
C11_ClearEmpties ==
    /\ [](/\ \A i \in 1..Len(_plbuffer.in) : fedSinceClear(_plbuffer.in[i][2])
          /\ \A i \in 1..Len(_plbuffer.out) : correctedSinceClear(_plbuffer.out[i])
          /\ \A i \in 1..Len(hist.taken) : correctedSinceClear(hist.taken[i])
          /\ ret.op = "_plExtract" /\ ret.exc = "" /\ ret.val # None
                => correctedSinceClear(ret.val[1]))
    /\ [][/\ ret'.op = "_plClear" =>
                /\ ret'.exc = ""
                /\ ~_plbuffer'.alloc
                /\ _plbuffer'.in = <<>> /\ _plbuffer'.out = <<>>
          /\ (~_plbuffer.alloc /\ ret'.op \in {"_plFeed", "_plProcess", "_plExtract"}) =>
                /\ _plbuffer'.alloc
                /\ _plbuffer'.out = <<>>
                /\ _plbuffer'.in = IF ret'.op = "_plFeed" /\ ret'.exc = ""
                                   THEN <<<<"spec", ret'.args[1]>>>> ELSE <<>>]_vars

\* a clear() has just discarded a pending and a ready entry
C11_Witness ==
    /\ ret.op = "_plClear"
    /\ hist.dropped[1] > 0 /\ hist.dropped[2] > 0
    /\ ~_plbuffer.alloc

(***************************************************************************)
(* Statements about the calibration (checked under SpecCal)                *)
(***************************************************************************)
isCalibration(r) == r.op = "computeA0FromFluxRatio"
\* the arguments of the last call
measuredOf(r) == r.args[1]
expectedOf(r) == r.args[2]
lambda1Of(r) == r.args[3]
lambda2Of(r) == r.args[4]
filterOf(r) == r.args[5]

plen(p) == IF p.t = "num" THEN 1 ELSE Len(p.q)
pick(q, i) == IF Len(q) = 1 THEN q[1] ELSE q[i]
argN(p, i) == IF p.t = "num" THEN p.n ELSE pick(p.q, i).n
Max2(a, b) == IF a >= b THEN a ELSE b

\* `expected` names transitions: one name or a sequence of names of the table
isName(e) == e.t = "str" /\ e.s \in DOMAIN __balmerratios
isNames(e) ==
    isSeq(e) /\ Len(e.q) > 0
    /\ \A i \in 1..Len(e.q) : isName(e.q[i])
\* `expected` is numeric: one number or a sequence of numbers
isNumeric(e) == e.t = "num" \/ (isSeq(e) /\ Len(e.q) > 0 /\ allNum(e.q))
\* `expected` holds a name and a number
isMixed(e) ==
    isSeq(e) /\ (\E i \in 1..Len(e.q) : e.q[i].t = "str")
             /\ (\E i \in 1..Len(e.q) : e.q[i].t = "num")

\* shape(lambda) of the law
shape(lamb) == f(lawAt(A0), Scalar(lamb)).val.v[1]

\* A0_i = -2.5*log10(measured_i/expected_i)/(shape(lambda1_i)-shape(lambda2_i))
A0of(m, e, l1, l2) == FDiv(FMul(-2500, Log10(FDiv(m, e))), shape(l1) - shape(l2))

\* (ratio_i, lambda1_i, lambda2_i): from the table for names, else as passed
rowOf(e, l1, l2, i) ==
    IF e.t = "str" THEN __balmerratios[e.s]
    ELSE IF isNames(e) THEN __balmerratios[pick(e.q, i).s]
    ELSE <<argN(e, i), argN(l1, i), argN(l2, i)>>

\* the per-measurement values A0_i of a call: an array as soon as one of the
\* arguments that take part is a sequence
rawA0(m, e, l1, l2) ==
    LET n == IF e.t = "str" THEN plen(m)
             ELSE IF isNames(e) THEN Max2(plen(m), plen(e))
             ELSE Max2(Max2(plen(m), plen(e)), Max2(plen(l1), plen(l2)))
        arr == IF e.t = "str" THEN m.t # "num"
               ELSE IF isNames(e) THEN TRUE
               ELSE m.t # "num" \/ e.t # "num" \/ l1.t # "num" \/ l2.t # "num"
    IN  [arr |-> arr,
         v |-> [i \in 1..n |-> LET r == rowOf(e, l1, l2, i)
                               IN  A0of(argN(m, i), r[1], r[2], r[3])]]
rawOf(r) == rawA0(measuredOf(r), expectedOf(r), lambda1Of(r), lambda2Of(r))

\* C4: a call whose `expected` mixes names and numbers raises ValueError,
\* and a call that raises leaves the normalization as it was.
C4_AllOrNothing ==
    [][isCalibration(ret') =>
         /\ isMixed(expectedOf(ret')) => ret'.exc = "ValueError"
         /\ ret'.exc # "" => A0' = A0]_vars

\* C5: with a sequence of names of the table and as many measured ratios the
\* call returns and stores the (filtered) values A0_i of the table's rows.
C5_NamedSequenceCalibrates ==
    (/\ isCalibration(ret)
     /\ kind = "CalzettiExtinction"
     /\ isNames(expectedOf(ret))
     /\ measuredOf(ret).t = "ndarray"
     /\ plen(measuredOf(ret)) = plen(expectedOf(ret)))
    => (/\ ret.exc = ""
        /\ A0 = applyFilter(filterOf(ret), rawOf(ret)))

\* C6: with a numeric `expected` (a number or a sequence of numbers) the call
\* returns and stores the (filtered) values A0_i when both wavelengths are
\* given, and raises ValueError when they are not.
C6_NumericExpected ==
    (/\ isCalibration(ret)
     /\ kind = "CalzettiExtinction"
     /\ isNumeric(expectedOf(ret)))
    => IF lambda1Of(ret).t # "None" /\ lambda2Of(ret).t # "None"
       THEN ret.exc = "" /\ A0 = applyFilter(filterOf(ret), rawOf(ret))
       ELSE ret.exc = "ValueError"

C8_MeanOfMeasurements ==
    (/\ isCalibration(ret) /\ ret.exc = ""
     /\ measuredOf(ret).t = "ndarray" /\ plen(measuredOf(ret)) > 1
     /\ filterOf(ret) = "None")
    => (A0 = Mean(rawOf(ret)) /\ ret.val[1] = A0)

(***************************************************************************)
(* Statements about the laws and the corrections (checked under SpecLaw)   *)
(***************************************************************************)
\* the arguments of the last call
arg1 == ret.args[1]
arg2 == ret.args[2]

\* C12: for a law of every class and after every change of the
\* normalization, law(lamb) is A0*shape(lamb) element by element: it raises
\* what the shape raises, raises ValueError when A0 and the shape have
\* lengths that do not combine, and otherwise returns the products.
C12_EvaluateIsA0TimesShape ==
    ret.op = "__call__" =>
        LET sh == f(self, arg1)
        IN  IF sh.exc # "" THEN ret.exc = sh.exc
            ELSE IF ~BroadcastOK(A0, sh.val) THEN ret.exc = "ValueError"
            ELSE /\ ret.exc = ""
                 /\ ret.val.arr = (A0.arr \/ arg1.arr)
                 /\ Len(ret.val.v) = BLen(A0, arg1)
                 /\ \A i \in 1..Len(ret.val.v) :
                        ret.val.v[i] = FMul(At(A0, i), At(sh.val, i))

\* a law with a color excess, calibrated on several ratios, has been
\* evaluated on an array of wavelengths
C12_Witness ==
    /\ ret.op = "__call__" /\ ret.exc = ""
    /\ kind \in EBmVKinds
    /\ A0.arr /\ Len(A0.v) > 1
    /\ arg1.arr /\ Len(arg1.v) > 1
    /\ \E i \in 1..Len(ret.val.v) : ret.val.v[i] # At(f(self, arg1).val, i)

\* the distance of two numbers
dist(a, b) == IF a >= b THEN a - b ELSE b - a

\* C13: for a law with a color excess whose shape at lambda_V and whose Rv are
\* not 0: after EBmV is set to c, by an assignment or by the constructor, the
\* normalization is Rv*c/shape(lambda_V) and reading EBmV gives c (within the
\* rounding of the arithmetic).
C13_ColorExcessRoundTrip ==
    (/\ ret.op \in {"_setEBmV", "__init__"}
     /\ kind \in EBmVKinds
     /\ params.Rv # 0
     /\ f(self, Scalar(__lambdaV)).val.v[1] # 0)
    => (/\ ret.exc = ""
        /\ A0 = Scalar(FDiv(FMul(params.Rv, arg1), f(self, Scalar(__lambdaV)).val.v[1]))
        /\ _getEBmV(self).exc = ""
        /\ ~_getEBmV(self).val.arr
        /\ dist(_getEBmV(self).val.v[1], arg1) <= Tol)

\* after another call, EBmV of a law has been set to a value that is not the
\* default of its class
C13_Witness ==
    /\ ret.op = "_setEBmV" /\ ret.exc = ""
    /\ hist.calls >= 2
    /\ kind = "LMCExtinction"
    /\ arg1 # defaults(kind).EBmV
    /\ ~A0.arr

\* a band that is a wavelength or a name of the band table, and its wavelength
known(b) == b.t = "num" \/ (isStr(b) /\ chars(b) \in DOMAIN bandwl)
wavelength(b) == IF isStr(b) THEN bandwl[chars(b)] ELSE b.n

\* color - law(l1) + law(l2)
colorOf(colors, l1, l2) ==
    NAdd(NSub(colors, __call__(self, Scalar(l1)).val), __call__(self, Scalar(l2)).val)

\* the two string forms of a pair of bands with names of one character
pairForms(b1, b2) == {<<"E", "(", b1, "-", b2, ")">>, <<b1, ",", b2>>}

\* C14: for a law with a shape, correctColor with the band pair given as the
\* string 'E(b1-b2)' or 'b1,b2', b1 and b2 names of the band table, returns
\* colors - law(bandwl[b1]) + law(bandwl[b2]).
C14_ColorFromString ==
    (/\ ret.op = "correctColor"
     /\ isStr(arg2)
     /\ kind # "Extinction"
     /\ BroadcastOK(arg1, A0))
    => \A b1, b2 \in DOMAIN bandwl :
            chars(arg2) \in pairForms(b1[1], b2[1]) =>
                /\ ret.exc = ""
                /\ ret.val = colorOf(arg1, bandwl[b1], bandwl[b2])

\* C15: for a law with a shape, correctColor with a pair (b1, b2), each of
\* them a name of the band table or a wavelength, returns
\* colors - law(l1) + law(l2), l1 and l2 being the wavelengths of b1 and b2.
C15_ColorFromPair ==
    (/\ ret.op = "correctColor"
     /\ isSeq(arg2) /\ Len(arg2.q) = 2
     /\ known(arg2.q[1]) /\ known(arg2.q[2])
     /\ kind # "Extinction"
     /\ BroadcastOK(arg1, A0))
    => (/\ ret.exc = ""
        /\ ret.val = colorOf(arg1, wavelength(arg2.q[1]), wavelength(arg2.q[2])))

\* the exception classes that derive from LookupError
LookupErrors == {"LookupError", "KeyError", "IndexError"}

\* a name that is not in the band table, alone or in a pair or a sequence
unknownBand(b) == isStr(b) /\ chars(b) \notin DOMAIN bandwl
unknownIn(bands) ==
    IF isStr(bands)
    THEN LET cs == remove(remove(chars(bands), <<"E", "(">>), <<")">>)
         IN  \E i \in 1..Len(cs) : cs[i] \notin {"-", ","} /\ <<cs[i]>> \notin DOMAIN bandwl
    ELSE \E i \in 1..Len(bands.q) : unknownBand(bands.q[i])

\* C16: on a law with a shape, a call that is given a name that its table
\* does not hold (a band for correctPhotometry, Alambda and correctColor, a
\* transition for computeA0FromFluxRatio, a line for correctFlux) raises an
\* exception of a LookupError class and leaves the normalization as it was.
C16_UnknownNameIsLookupError ==
    [][(/\ kind # "Extinction"
        /\ \/ ret'.op = "correctPhotometry" /\ unknownBand(ret'.args[2])
           \/ ret'.op = "Alambda" /\ (unknownBand(ret'.args[1])
                                       \/ (isSeq(ret'.args[1]) /\ unknownIn(ret'.args[1])))
           \/ ret'.op = "correctColor" /\ unknownIn(ret'.args[2])
           \/ ret'.op = "computeA0FromFluxRatio" /\ isStr(ret'.args[2])
                 /\ ret'.args[2].s \notin DOMAIN __balmerratios
           \/ ret'.op = "correctFlux" /\ isStr(ret'.args[2])
                 /\ ret'.args[2].s \notin DOMAIN __builtinlines)
       => (ret'.exc \in LookupErrors /\ A0' = A0)]_vars


\* law(wavelength(b)) for a band name of the table or a wavelength b
atBand(b) == __call__(self, Scalar(wavelength(b)))

\* every element of a sequence of bands is a name of the table or a wavelength
allKnown(q) == \A i \in 1..Len(q) : known(q[i])

atSpectrum(spec) == __call__(self, Arr(spec.x))

\* a sequence times 10**(c/2.5), element by element
timesTenTo(a, c) == [i \in 1..Len(a) |-> FMul(a[i], corrOf(At(c, i)))]

\* C18: a call of correctSpectrum that copies (the default) leaves the
\* caller's spectrum as it was and returns another object; a call in place
\* returns the caller's object; the spectrum returned has flux and err
\* multiplied element by element by 10**(law(x)/2.5) and carries the unit the
\* caller's spectrum had before the call.
C18_CopyOrInPlace ==
    ret.op = "correctSpectrum" =>
        /\ arg2 => ret.val.arg = arg1 /\ ~ret.val.same
        /\ (ret.exc = "" /\ ~arg2) => ret.val.same /\ ret.val.arg = ret.val.val
        /\ ret.exc = "" =>
              /\ atSpectrum(arg1).exc = ""
              /\ ret.val.val.flux = timesTenTo(arg1.flux, atSpectrum(arg1).val)
              /\ ret.val.val.err = timesTenTo(arg1.err, atSpectrum(arg1).val)
              /\ ret.val.val.x = arg1.x
              /\ ret.val.val.unit = arg1.unit

\* a spectrum in frequency units has been corrected in place, and its flux
\* changed
C18_Witness ==
    /\ ret.op = "correctSpectrum" /\ ret.exc = ""
    /\ ~arg2
    /\ arg1.unit # WL
    /\ Len(arg1.x) > 1
    /\ \A i \in 1..Len(arg1.x) : ret.val.arg.flux[i] > arg1.flux[i]

\* a spectrum has a wavelength outside the range of the CCM law
outOfRange(spec) ==
    \E i \in 1..Len(spec.x) : invMicron(spec.x[i]) < 300 \/ invMicron(spec.x[i]) > 10000

\* C19: a call of correctSpectrum in place, on a Cardelli law and a spectrum
\* with a wavelength outside 0.3 <= x <= 10, raises ValueError and leaves flux,
\* err and unit of the caller's spectrum as they were before the call.
C19_DomainErrorBeforeMutation ==
    (ret.op = "correctSpectrum" /\ ~arg2 /\ kind = "CardelliExtinction" /\ outOfRange(arg1))
    => (/\ ret.exc = "ValueError"
        /\ ret.val.arg.flux = arg1.flux
        /\ ret.val.arg.err = arg1.err
        /\ ret.val.arg.unit = arg1.unit)

\* C20: the shape of the Cardelli law raises ValueError, and returns nothing,
\* when an element of its input has x = 1e4/lamb below 0.3 or above 10;
\* otherwise, x = 0.3 and x = 10 included, it returns a number for a number and
\* an array of the same length for an array.
C20_CardelliDomain ==
    (ret.op = "f" /\ kind = "CardelliExtinction") =>
        IF \E i \in 1..Len(arg1.v) : invMicron(arg1.v[i]) < 300 \/ invMicron(arg1.v[i]) > 10000
        THEN ret.exc = "ValueError" /\ ret.val = None
        ELSE /\ ret.exc = ""
             /\ ret.val.arr = arg1.arr
             /\ Len(ret.val.v) = Len(arg1.v)

\* the shape of a Cardelli law has been computed for an array that holds the
\* wavelengths of x = 0.3 and of x = 10
C20_Witness ==
    /\ ret.op = "f" /\ ret.exc = ""
    /\ kind = "CardelliExtinction"
    /\ arg1.arr /\ Len(ret.val.v) = Len(arg1.v)
    /\ \E i \in 1..Len(arg1.v) : invMicron(arg1.v[i]) = 300
    /\ \E i \in 1..Len(arg1.v) : invMicron(arg1.v[i]) = 10000


\* the regime below an interior end of a regime, taken as x, or 0
regimeBelow(x) ==
    IF \E k \in 2..5 : CCMbounds[k] = x THEN (CHOOSE k \in 2..5 : CCMbounds[k] = x) - 1 ELSE 0

\* the formulas of regime k and of regime k+1 give the same a and the same b
\* at x, and the same shape for Rv, within Tol
joined(k, x, Rv) ==
    /\ dist(regimeA(k, x), regimeA(k + 1, x)) <= Tol
    /\ dist(regimeB(k, x), regimeB(k + 1, x)) <= Tol
    /\ dist(regimeA(k, x) + FDiv(regimeB(k, x), Rv),
            regimeA(k + 1, x) + FDiv(regimeB(k + 1, x), Rv)) <= Tol

\* C21: when the shape of a Cardelli law has been computed at x = 1.1, 3.3,
\* 5.9 or 8, the value returned is, within Tol, the value that the formula of
\* the regime below gives at that x, and the formulas of the two regimes that
\* meet there give the same a and the same b (within Tol).
C21_CardelliContinuous ==
    (ret.op = "f" /\ kind = "CardelliExtinction" /\ ret.exc = "") =>
        \A i \in 1..Len(arg1.v) :
            regimeBelow(invMicron(arg1.v[i])) # 0 =>
                /\ joined(regimeBelow(invMicron(arg1.v[i])), invMicron(arg1.v[i]), params.Rv)
                /\ dist(ret.val.v[i],
                        regimeA(regimeBelow(invMicron(arg1.v[i])), invMicron(arg1.v[i]))
                        + FDiv(regimeB(regimeBelow(invMicron(arg1.v[i])), invMicron(arg1.v[i])),
                               params.Rv)) <= Tol


\* C22: after law = Extinction(f, A0): with a function f the call succeeds
\* and law(lamb) is A0*f(lamb) for every lamb; with an f that is neither None
\* nor a function the call raises ValueError; with f = None the call succeeds
\* and the shape of the law raises NotImplementedError.
C22_ConstructWithShape ==
    ret.op = "Extinction" =>
        IF arg1.t = "None"
        THEN /\ ret.exc = ""
             /\ \A lamb \in WaveArgs : f(self, lamb).exc = "NotImplementedError"
        ELSE IF arg1.t = "function"
        THEN /\ ret.exc = ""
             /\ \A lamb \in WaveArgs :
                    __call__(self, lamb) = Ok(NMul(arg2, called1e4(lamb)))
        ELSE ret.exc = "ValueError"


\* C24: the shape of a law of the Fitzpatrick-Massa form on an array is,
\* element by element, its shape on the element as a number: C1+C2*x+C3*D+Rv,
\* with C4*(0.5392*(x-5.9)**2+0.05644*(x-5.9)**3) added for the elements with
\* x >= 5.9 and for no other element.
C24_CubicTermMasked ==
    (ret.op = "f" /\ kind \in FMKinds /\ arg1.arr) =>
        /\ ret.exc = ""
        /\ ret.val.arr
        /\ Len(ret.val.v) = Len(arg1.v)
        /\ \A i \in 1..Len(arg1.v) :
               /\ ret.val.v[i] = f(self, Scalar(arg1.v[i])).val.v[1]
               /\ ret.val.v[i] - FMbase(self, invMicron(arg1.v[i])) - params.Rv
                     = IF invMicron(arg1.v[i]) >= 5900
                       THEN FMcubic(params.C4, invMicron(arg1.v[i]) - 5900)
                       ELSE 0

\* the shape of such a law has been computed on an array whose first element
\* has x < 5.9 and whose second has x > 5.9 and a cubic term that is not 0
C24_Witness ==
    /\ ret.op = "f" /\ ret.exc = ""
    /\ kind \in FMKinds
    /\ arg1.arr /\ Len(arg1.v) > 1
    /\ invMicron(arg1.v[1]) < 5900
    /\ invMicron(arg1.v[2]) > 5900
    /\ FMcubic(params.C4, invMicron(arg1.v[2]) - 5900) # 0

\* the last regime whose mask holds x
topRegime(x) ==
    CHOOSE k \in 1..5 : regimeMask(k, x) /\ \A j \in (k + 1)..5 : ~regimeMask(j, x)

\* C25: every x of [0.3,10] (in steps of 0.001) is in the mask of a regime of
\* the Cardelli law; when the shape has been computed, a and b of every
\* element have been written by a regime formula, the formula of the last
\* regime that holds x, which at x = 1.1, 3.3, 5.9 and 8 is the regime above,
\* and the value returned is that a + b/Rv.
C25_MasksCoverDomain ==
    (ret.op = "f" /\ kind = "CardelliExtinction" /\ ret.exc = "") =>
        /\ \A x \in CCMbounds[1]..CCMbounds[6] : \E k \in 1..5 : regimeMask(k, x)
        /\ \A i \in 1..Len(arg1.v) :
               /\ CCMa(invMicron(arg1.v[i])) # unwritten
               /\ CCMb(invMicron(arg1.v[i])) # unwritten
               /\ CCMa(invMicron(arg1.v[i]))
                     = regimeA(topRegime(invMicron(arg1.v[i])), invMicron(arg1.v[i]))
               /\ CCMb(invMicron(arg1.v[i]))
                     = regimeB(topRegime(invMicron(arg1.v[i])), invMicron(arg1.v[i]))
               /\ regimeBelow(invMicron(arg1.v[i])) # 0 =>
                     topRegime(invMicron(arg1.v[i])) = regimeBelow(invMicron(arg1.v[i])) + 1
               /\ ret.val.v[i]
                     = regimeA(topRegime(invMicron(arg1.v[i])), invMicron(arg1.v[i]))
                       + FDiv(regimeB(topRegime(invMicron(arg1.v[i])), invMicron(arg1.v[i])),
                              params.Rv)

\* the shape of a Cardelli law has been computed at x = 3.3, where the
\* optical and the near-UV formula give different values
C25_Witness ==
    /\ ret.op = "f" /\ ret.exc = ""
    /\ kind = "CardelliExtinction"
    /\ ~arg1.arr
    /\ invMicron(arg1.v[1]) = CCMbounds[3]
    /\ regimeA(2, CCMbounds[3]) # regimeA(3, CCMbounds[3])
    /\ ret.val.v[1] = regimeA(3, CCMbounds[3]) + FDiv(regimeB(3, CCMbounds[3]), params.Rv)

(***************************************************************************)
(* The pipeline buffer as a whole (checked under Spec)                     *)
(***************************************************************************)
\* C26: in every state, whatever calls of _plFeed, _plProcess and _plExtract
\* were made since the last _plClear and whichever of them raised, the number
\* of spectra fed is the number of pending entries plus the number of ready
\* entries plus the number of entries that _plExtract returned, and the
\* pending entries are the last spectra fed, each once and in feed order.
C26_NothingLostOrDuplicated ==
    /\ Len(hist.fed) = Len(_plbuffer.in) + Len(_plbuffer.out) + Len(hist.taken)
    /\ Len(_plbuffer.in) <= Len(hist.fed)
    /\ \A i \in 1..Len(_plbuffer.in) :
           _plbuffer.in[i] = <<"spec", hist.fed[Len(hist.fed) - Len(_plbuffer.in) + i]>>

(***************************************************************************)
(* Statements about what a call leaves alone (checked under SpecFrame)     *)
(***************************************************************************)
\* the calls that may change the normalization, and the construction of
\* another law
Normalizing == {"computeA0FromFluxRatio", "_setEBmV", "Extinction"}

\* C23: a call of f, __call__, correctPhotometry, Alambda, correctColor,
\* correctFlux, correctSpectrum, of the getter of EBmV, or of _plFeed,
\* _plProcess, _plExtract and _plClear leaves the normalization, the class and
\* the shape parameters of the law as they were, whether it returns or
\* raises; a calibration and an assignment to EBmV leave the class, the shape
\* parameters and the pipeline buffer as they were.
C23_OnlyCalibrationNormalizes ==
    [][/\ ret'.op \notin Normalizing => (A0' = A0 /\ params' = params /\ kind' = kind)
       /\ ret'.op \in {"computeA0FromFluxRatio", "_setEBmV"} =>
              (_plbuffer' = _plbuffer /\ params' = params /\ kind' = kind)]_vars

\* a flux has been corrected by a law whose normalization a calibration
\* changed while a spectrum was pending
C23_Witness ==
    /\ ret.op = "correctFlux" /\ ret.exc = ""
    /\ kind = "CalzettiExtinction"
    /\ A0 # Scalar(Scale)
    /\ _plbuffer.alloc /\ Len(_plbuffer.in) > 0

=============================================================================
